---- MODULE Spec2Model ----
(***************************************************************************)
(* The slot reservation / booking / payment-confirmation workflow of       *)
(* src/main.py (reserve_slots, create_booking, confirm_payment) run by     *)
(* concurrent request handlers against the shared MongoDB collections      *)
(* availabilityslot, booking and payment.                                  *)
(*                                                                         *)
(* Granularity.  Every store call of a handler is one atomic step, except  *)
(* update_many: MongoDB applies a multi-document update one document at a  *)
(* time (each document atomically, the whole call not), so an update_many  *)
(* over k matching documents is k steps, taken in _id order.  Handler-     *)
(* local computation (id parsing, the HMAC check, price arithmetic, the    *)
(* payment-gateway HTTP call) touches no shared state and is merged into   *)
(* the adjacent store step.                                                *)
(***************************************************************************)
EXTENDS Integers, Sequences, FiniteSets, TLC

\* ---------------------------------------------------------------- bounds
NumCallers == 2      \* concurrent request handlers
NumSlots == 2        \* documents in the availabilityslot collection
MaxSel == 2          \* longest slotIds list a reserve request carries
MaxBookSel == 1      \* longest slotIds list a create_booking request carries
MaxBookings == 2     \* create_booking requests admitted (caps the booking collection)
NumVenues == 1       \* documents in the venue collection
NumUsers == 1        \* distinct userId values
NumPaymentIds == 2   \* distinct razorpay_payment_id values

Callers == 1..NumCallers
SlotIds == 1..NumSlots
Venues == 1..NumVenues
Users == 1..NumUsers
PaymentIds == 1..NumPaymentIds

\* A well-formed ObjectId that names no document, and a string ObjectId() rejects.
MissingId == 0
MalformedId == -1
NoId == -2

IdInputs == SlotIds \cup {MissingId, MalformedId}

RECURSIVE SeqsUpTo(_, _)
SeqsUpTo(S, n) ==
    IF n = 0 THEN {<<>>}
    ELSE LET shorter == SeqsUpTo(S, n - 1)
         IN  shorter \cup {Append(q, x) : q \in {r \in shorter : Len(r) = n - 1}, x \in S}

Range(q) == {q[k] : k \in 1..Len(q)}

SetMin(S) == CHOOSE x \in S : \A y \in S : x <= y

\* ------------------------------------------------------------------ state
VARIABLES
    slotStatus,   \* db["availabilityslot"]: slot id -> status
    bookings,     \* db["booking"]: sequence of documents, _id = index
    payments,     \* db["payment"]: sequence of documents in insertion order
    keyId,        \* RAZORPAY_KEY_ID is non-empty
    keySecret,    \* RAZORPAY_KEY_SECRET is non-empty
    load,         \* the run's size: bookings it admits, payment ids callers send
    pc,           \* per handler: the store call it is about to make, or "idle"
    slotIds,      \* per handler: payload.slotIds, or the found booking's slotIds
    venueId,      \* per handler: payload.venueId
    userId,       \* per handler: payload.userId
    bookingId,    \* per handler: booking_id / payload.bookingId
    paymentId,    \* per handler: payload.razorpay_payment_id
    found,        \* per handler: paymentStatus of the booking its find_one returned
    todo,         \* per handler: documents its running update_many has yet to visit
    modified,     \* per handler: documents its running update_many has changed
    last,         \* the response sent by the latest step, if it sent one
    unreserved,   \* history, create_booking: slots it validated as available and
                  \* its update_many then found taken
    race,         \* history, reserve_slots: the handler it races on the same slots
    rivalResp     \* history, reserve_slots: the response that handler got

store == <<slotStatus, bookings, payments>>
env == <<keyId, keySecret, load>>
vars == <<slotStatus, bookings, payments, keyId, keySecret, load, pc, slotIds, venueId, userId,
          bookingId, paymentId, found, todo, modified, last, unreserved, race, rivalResp>>

\* The responses of the three endpoints.
NoResp == "none"
InvalidId == "400 Invalid id"
SlotsNotAvailable == "409 One or more slots are not available"
Reserved == "200 reserved"
VenueNotFound == "404 Venue not found"
InvalidSlots == "400 Invalid slots"
NotBookable == "409 Some slots are not bookable"
BookingCreated == "200 bookingId"
SignatureMismatchResp == "400 Signature mismatch"
BookingNotFound == "404 Booking not found"
Confirmed == "200 confirmed"

\* A response on record: who sent it, its status and detail (or body key), the
\* modified_count of the reserve it answers, and the response of its rival.
Response(i, code, count, rival) ==
    [caller |-> i, resp |-> code, modified |-> count, rival |-> rival]
NoLast == Response(0, NoResp, 0, NoResp)

\* race[i]: {} no race on record, {i} the request began with all its slots
\* available, {j} it overlaps the request of handler j on the same slots.
NoRace == {}
OpenRace(i) == {i}

\* found: the handler holds no booking document.
NoStatus == "none"

\* oid(): ObjectId(s), HTTP 400 "Invalid id" when s does not parse.
oid_ok(s) == s # MalformedId

\* The documents of availabilityslot matched by {"_id": {"$in": ids}}.
MatchIn(ids) == Range(ids) \cap SlotIds

\* The deployments explored: a live gateway, signature checking with several
\* payment ids, and several bookings; one dimension is large at a time.
Deployments ==
    {[keyId |-> TRUE, keySecret |-> TRUE, bookings |-> 1, payments |-> 1],
     [keyId |-> FALSE, keySecret |-> TRUE, bookings |-> 1, payments |-> NumPaymentIds],
     [keyId |-> FALSE, keySecret |-> FALSE, bookings |-> MaxBookings, payments |-> 1]}

\* A seeded slot is "available"; the schema also admits owner-blocked slots.
Init ==
    /\ slotStatus \in [SlotIds -> {"available", "blocked"}]
    /\ bookings = <<>>
    /\ payments = <<>>
    /\ \E d \in Deployments :
        /\ keyId = d.keyId
        /\ keySecret = d.keySecret
        /\ load = [bookings |-> d.bookings, payments |-> d.payments]
    /\ pc = [i \in Callers |-> "idle"]
    /\ slotIds = [i \in Callers |-> <<>>]
    /\ venueId = [i \in Callers |-> NoId]
    /\ userId = [i \in Callers |-> NoId]
    /\ bookingId = [i \in Callers |-> NoId]
    /\ paymentId = [i \in Callers |-> NoId]
    /\ found = [i \in Callers |-> NoStatus]
    /\ todo = [i \in Callers |-> {}]
    /\ modified = [i \in Callers |-> 0]
    /\ last = NoLast
    /\ unreserved = [i \in Callers |-> {}]
    /\ race = [i \in Callers |-> NoRace]
    /\ rivalResp = [i \in Callers |-> NoResp]

\* A request goes to the lowest-numbered free handler (handlers are interchangeable).
Accepts(i) ==
    /\ pc[i] = "idle"
    /\ \A j \in Callers : j < i => pc[j] # "idle"

\* The frame of handler i after a step; the other handlers keep theirs.
Frame(i, at, ids, v, u, b, p, rest) ==
    /\ pc' = [pc EXCEPT ![i] = at]
    /\ slotIds' = [slotIds EXCEPT ![i] = ids]
    /\ venueId' = [venueId EXCEPT ![i] = v]
    /\ userId' = [userId EXCEPT ![i] = u]
    /\ bookingId' = [bookingId EXCEPT ![i] = b]
    /\ paymentId' = [paymentId EXCEPT ![i] = p]
    /\ todo' = [todo EXCEPT ![i] = rest]

\* The handler goes on to its next store call.
Continue(i, at, ids, v, u, b, p, rest) ==
    /\ Frame(i, at, ids, v, u, b, p, rest)
    /\ last' = NoLast

\* The handler returns (or raises HTTPException) with the response `code`.
Return(i, code) ==
    /\ last' = Response(i, code, 0, NoResp)
    /\ Frame(i, "idle", <<>>, NoId, NoId, NoId, NoId, {})
    /\ found' = [found EXCEPT ![i] = NoStatus]
    /\ modified' = [modified EXCEPT ![i] = 0]
    /\ unreserved' = [unreserved EXCEPT ![i] = {}]
    /\ race' = [race EXCEPT ![i] = NoRace]
    /\ rivalResp' = [rivalResp EXCEPT ![i] = NoResp]

\* ------------------------------------------------------------ reserve_slots
ReserveLists == SeqsUpTo(IdInputs, MaxSel)

\* One document of update_many({"_id": {"$in": ids}, "status": "available"},
\*                              {"$set": {"status": "reserved"}}).
\* ReserveDoc with "booked" in the filter beside "available".
ReserveDocRebooked(status, d) ==
    IF status[d] \in {"available", "booked"} THEN [status EXCEPT ![d] = "reserved"] ELSE status

\* ReserveDoc with the update left out.
ReserveDocSkipped(status, d) == status

\* ReserveDoc without the status filter of line 224.
ReserveDocUnfiltered(status, d) == [status EXCEPT ![d] = "reserved"]

ReserveDoc(status, d) ==
    IF status[d] = "available" THEN [status EXCEPT ![d] = "reserved"] ELSE status

\* Lines 227-229: modified_count against len(ids).
ReserveResult(count, ids) == IF count # Len(ids) THEN SlotsNotAvailable ELSE Reserved

\* The request names existing slots, each once, all of them available.
AllAvailable(ids) ==
    /\ Cardinality(MatchIn(ids)) = Len(ids)
    /\ \A k \in 1..Len(ids) : ids[k] \in SlotIds /\ slotStatus[ids[k]] = "available"

\* Handlers still running a reserve of the same slots that began with all available.
Racing(i, ids) ==
    {j \in Callers \ {i} : /\ pc[j] = "reserve_update"
                          /\ Range(slotIds[j]) = Range(ids)
                          /\ race[j] = OpenRace(j)}

\* The handler i races with, 0 if none.
RivalOf(i) ==
    LET rivals == {j \in Callers \ {i} : race[i] = {j} /\ race[j] = {i}}
    IN  IF rivals # {} THEN SetMin(rivals) ELSE 0

\* update_many visits document d, the next of `rest` in _id order; after the last
\* document the handler answers (lines 227-229).
ReserveVisit(i, ids, rest, count, pairing) ==
    LET d == SetMin(rest)
        after == ReserveDoc(slotStatus, d)
        n == IF after # slotStatus THEN count + 1 ELSE count
        j == RivalOf(i)
    IN  /\ slotStatus' = after
        /\ UNCHANGED <<unreserved, found>>
        /\ IF rest = {d}
           THEN /\ Frame(i, "idle", <<>>, NoId, NoId, NoId, NoId, {})
                /\ last' = Response(i, ReserveResult(n, ids), n, rivalResp[i])
                /\ modified' = [modified EXCEPT ![i] = 0]
                /\ race' = [k \in Callers |-> IF k \in {i, j} THEN NoRace ELSE race[k]]
                /\ rivalResp' = [k \in Callers |->
                                   IF k = i THEN NoResp
                                   ELSE IF k = j THEN ReserveResult(n, ids)
                                   ELSE rivalResp[k]]
           ELSE /\ Continue(i, "reserve_update", ids, NoId, NoId, NoId, NoId, rest \ {d})
                /\ modified' = [modified EXCEPT ![i] = n]
                /\ race' = pairing
                /\ UNCHANGED rivalResp

\* POST /api/slots/reserve with payload.slotIds = ids, up to its first store step.
Reserve(i, ids) ==
    /\ Accepts(i)
    /\ IF \E k \in 1..Len(ids) : ~oid_ok(ids[k])
       THEN /\ Return(i, InvalidId)
            /\ UNCHANGED slotStatus
       ELSE IF MatchIn(ids) = {}
       THEN /\ Return(i, ReserveResult(0, ids))
            /\ UNCHANGED slotStatus
       ELSE ReserveVisit(i, ids, MatchIn(ids), 0,
                IF Racing(i, ids) # {}
                THEN LET j == SetMin(Racing(i, ids))
                     IN  [race EXCEPT ![i] = {j}, ![j] = {i}]
                ELSE [race EXCEPT ![i] = IF AllAvailable(ids) THEN OpenRace(i) ELSE NoRace])
    /\ UNCHANGED <<bookings, payments, env>>

ReserveStart(i) == \E ids \in ReserveLists : Reserve(i, ids)

ReserveStep(i) ==
    /\ pc[i] = "reserve_update"
    /\ ReserveVisit(i, slotIds[i], todo[i], modified[i], race)
    /\ UNCHANGED <<bookings, payments, env>>

\* ----------------------------------------------------------- create_booking
BookLists == SeqsUpTo(IdInputs, MaxBookSel)
VenueInputs == Venues \cup {MissingId, MalformedId}

\* pricePerHour of the seeded venues, in whole rupees.
SAMPLE_VENUES == <<1200, 500, 300, 700, 900, 400, 800, 1100>>

\* Amounts are held in hundredths of a rupee.
Hundredths == 100

price_per_hour(v) == SAMPLE_VENUES[v] * Hundredths

\* round(x * 0.1, 2) for x in hundredths: to the nearest hundredth, ties to even.
RoundTenth(x) ==
    LET q == x \div 10
        r == x % 10
    IN  IF r > 5 \/ (r = 5 /\ q % 2 = 1) THEN q + 1 ELSE q

\* hours = max(1, len(slotIds)); total_amount = round(price_per_hour * hours, 2)
total_amount(v, ids) ==
    LET hours == IF Len(ids) > 1 THEN Len(ids) ELSE 1
    IN  price_per_hour(v) * hours

\* Bookable with "blocked" let through.
BookableWithBlocked(st) == st \in {"available", "reserved", "blocked"}

\* The status test of the validation: s.get("status") in ("available", "reserved").
Bookable(st) == st \in {"available", "reserved"}

\* booking_doc.
booking_doc(u, v, ids) ==
    [userId |-> u, venueId |-> v, slotIds |-> ids,
     totalAmount |-> total_amount(v, ids),
     commission |-> RoundTenth(total_amount(v, ids)),
     paymentStatus |-> "pending", status |-> "pending", bookingCode |-> NoId]

\* The order id the gateway issues for receipt b, and the locally made one.
GatewayOrder(b) == <<"rzp", b>>
FallbackOrder(b) == <<"order", b>>

\* pay_doc with the amount in paise, as sent to the gateway.
pay_doc_paise(b, amount, order) ==
    [bookingId |-> b, amount |-> amount * 100, orderId |-> order,
     status |-> "created", transactionId |-> NoId]

\* pay_doc.
pay_doc(b, amount, order) ==
    [bookingId |-> b, amount |-> amount, orderId |-> order,
     status |-> "created", transactionId |-> NoId]

\* Requests past validation whose booking document is not inserted yet.
Creating == {j \in Callers : pc[j] \in {"create_reserve", "create_booking"}}

\* The outcome of lines 242-256 for a request, "" when it passes.
CreateError(v, ids) ==
    IF ~oid_ok(v) THEN InvalidId
    ELSE IF v \notin Venues THEN VenueNotFound
    ELSE IF \E k \in 1..Len(ids) : ~oid_ok(ids[k]) THEN InvalidId
    ELSE IF Cardinality(MatchIn(ids)) # Len(ids) THEN InvalidSlots
    ELSE IF \E d \in MatchIn(ids) : ~Bookable(slotStatus[d]) THEN NotBookable
    ELSE ""

\* POST /api/bookings/create, lines 242-256: venue lookup, price, slot validation.
Create(i, u, v, ids) ==
    /\ Accepts(i)
    /\ IF CreateError(v, ids) # ""
       THEN Return(i, CreateError(v, ids))
       ELSE /\ Len(bookings) + Cardinality(Creating) < load.bookings
            /\ Continue(i, IF MatchIn(ids) = {} THEN "create_booking" ELSE "create_reserve",
                        ids, v, u, NoId, NoId, MatchIn(ids))
            /\ unreserved' = [unreserved EXCEPT ![i] =
                                {d \in MatchIn(ids) : slotStatus[d] = "available"}]
            /\ UNCHANGED <<found, modified, race, rivalResp>>
    /\ UNCHANGED <<store, env>>

CreateStart(i) == \E u \in Users, v \in VenueInputs, ids \in BookLists : Create(i, u, v, ids)

\* Line 259: one document of the update_many; its result is dropped.
CreateReserveStep(i) ==
    /\ pc[i] = "create_reserve"
    /\ LET d == SetMin(todo[i])
           after == ReserveDoc(slotStatus, d)
       IN  /\ slotStatus' = after
           /\ unreserved' = [unreserved EXCEPT ![i] = IF after # slotStatus THEN @ \ {d} ELSE @]
           /\ Continue(i, IF todo[i] = {d} THEN "create_booking" ELSE "create_reserve",
                       slotIds[i], venueId[i], userId[i], NoId, NoId, todo[i] \ {d})
    /\ UNCHANGED <<bookings, payments, env, found, modified, race, rivalResp>>

\* Line 271: db["booking"].insert_one(booking_doc).
CreateInsertBooking(i) ==
    /\ pc[i] = "create_booking"
    /\ bookings' = Append(bookings, booking_doc(userId[i], venueId[i], slotIds[i]))
    /\ Continue(i, "create_payment", slotIds[i], venueId[i], userId[i], Len(bookings) + 1,
                NoId, {})
    /\ UNCHANGED <<slotStatus, payments, env, found, modified, unreserved, race, rivalResp>>

\* order_id with the except clause of lines 292-294 left out.
order_id_uncaught(b, ok) ==
    IF keyId /\ keySecret THEN GatewayOrder(b) ELSE FallbackOrder(b)

\* Lines 275-296, order["id"]: the gateway's order when it is configured and the
\* call goes through (ok), the local fallback when it is not configured or the
\* call raises.
order_id(b, ok) ==
    IF keyId /\ keySecret /\ ok THEN GatewayOrder(b) ELSE FallbackOrder(b)

Orders(b) == {order_id(b, ok) : ok \in BOOLEAN}

\* Lines 275-313 with the gateway call going through (ok) or raising:
\* db["payment"].insert_one(pay_doc) and the response.
CreatePayment(i, ok) ==
    /\ pc[i] = "create_payment"
    /\ payments' = Append(payments,
                          pay_doc(bookingId[i], total_amount(venueId[i], slotIds[i]),
                                  order_id(bookingId[i], ok)))
    /\ Return(i, BookingCreated)
    /\ UNCHANGED <<slotStatus, bookings, env>>

CreateInsertPayment(i) == \E ok \in BOOLEAN : CreatePayment(i, ok)

\* ------------------------------------------------------------------ pricing
\* Lines 245-247 and 266 on prices of any size. A price is held in thousandths of
\* a rupee, an amount in hundredths.
MaxHours == 3
Mills == 1000

\* pricePerHour values: those of the seeded venues, a venue without the field (0),
\* and prices whose total or commission falls half-way between two hundredths.
Prices ==
    {SAMPLE_VENUES[k] * Mills : k \in 1..Len(SAMPLE_VENUES)}
        \cup {0, 5, 50, 125, 150, 250, 333, 375, 2675, 99995}

HourLists == SeqsUpTo(SlotIds, MaxHours)

\* billed_hours without the minimum of one.
billed_hours_unfloored(n) == n

\* hours = max(1, len(payload.slotIds))
billed_hours(n) == IF n > 1 THEN n ELSE 1

\* round(x, 2) of a float x given with one digit more (in tenths of a hundredth):
\* the nearest hundredth; half-way, the binary value of x lies above or below the
\* decimal one and decides, so either neighbour can come out.
round2(x) ==
    IF x % 10 < 5 THEN {x \div 10}
    ELSE IF x % 10 > 5 THEN {x \div 10 + 1}
    ELSE {x \div 10, x \div 10 + 1}

\* total_amount = round(price_per_hour * hours, 2)
totals(P, n) == round2(P * billed_hours(n))

\* round(total_amount * 0.1, 2)
commissions(total) == round2(total)

\* booking_doc of a venue with pricePerHour P.
Quote(P, ids) ==
    /\ \E t \in totals(P, Len(ids)) : \E c \in commissions(t) :
          bookings' = <<[booking_doc(SetMin(Users), SetMin(Venues), ids)
                           EXCEPT !.totalAmount = t, !.commission = c]>>
    /\ UNCHANGED <<slotStatus, payments, env, pc, slotIds, venueId, userId, bookingId,
                   paymentId, found, todo, modified, last, unreserved, race, rivalResp>>

PricingNext == \E P \in Prices, ids \in HourLists : Quote(P, ids)

PricingSpec == Init /\ [][PricingNext]_vars

\* ---------------------------------------------------------- confirm_payment
Secret == "secret"
OtherKey == "other"

\* hmac.new(key, f"{order_id}|{payment_id}", sha256).hexdigest(): one digest per
\* (key, message), distinct for distinct arguments.
Hmac(key, order, p) == <<key, order, p>>

NoSignature == <<"None">>      \* razorpay_signature absent (None)
EmptySignature == <<"">>       \* razorpay_signature = ""

\* Python truth of an Optional[str].
Truthy(sig) == sig \notin {NoSignature, EmptySignature}

\* SignatureMismatch with a digest that leaves the payment id out of the message.
SignatureMismatchOrderOnly(order, p, sig) ==
    /\ Truthy(sig) /\ keySecret
    /\ <<sig[1], sig[2]>> # <<Secret, order>>

\* Lines 326-330: the handler raises "Signature mismatch".
SignatureMismatch(order, p, sig) ==
    /\ Truthy(sig) /\ keySecret
    /\ Hmac(Secret, order, p) # sig

\* The order ids a caller may send for booking b, and the signatures it may send
\* with (order, p): none, empty, the right one, and ones made with another key,
\* for another order or for another payment id.
OrderInputs(b) == {GatewayOrder(b), FallbackOrder(b)}

Signatures(b, order, p) ==
    {NoSignature, EmptySignature, Hmac(Secret, order, p), Hmac(OtherKey, order, p)}
        \cup {Hmac(Secret, o, p) : o \in OrderInputs(b)}
        \cup {Hmac(Secret, order, q) : q \in PaymentIds}

BookingIdInputs == (1..load.bookings) \cup {MissingId, MalformedId}

\* ConfirmBooking as a replace_one: the fields the update does not name are lost.
ConfirmBookingReplaced(doc, p) ==
    [userId |-> NoId, venueId |-> NoId, slotIds |-> doc.slotIds,
     totalAmount |-> 0, commission |-> 0,
     paymentStatus |-> "paid", status |-> "confirmed", bookingCode |-> p]

\* The $set of line 337.
ConfirmBooking(doc, p) ==
    [doc EXCEPT !.paymentStatus = "paid", !.status = "confirmed", !.bookingCode = p]

\* ConfirmError with a handler that turns away a booking that is already paid.
ConfirmErrorOnce(b, p, order, sig) ==
    IF SignatureMismatch(order, p, sig) THEN SignatureMismatchResp
    ELSE IF ~oid_ok(b) THEN InvalidId
    ELSE IF b \notin 1..Len(bookings) THEN BookingNotFound
    ELSE IF bookings[b].paymentStatus = "paid" THEN BookingNotFound
    ELSE ""

\* The outcome of lines 326-335 for a request, "" when it passes.
ConfirmError(b, p, order, sig) ==
    IF SignatureMismatch(order, p, sig) THEN SignatureMismatchResp
    ELSE IF ~oid_ok(b) THEN InvalidId
    ELSE IF b \notin 1..Len(bookings) THEN BookingNotFound
    ELSE ""

\* POST /api/payments/razorpay/confirm, lines 326-337: signature check, find_one and
\* update_one of the booking (find_one reads slotIds, which no step ever changes).
Confirm(i, b, p, order, sig) ==
    /\ Accepts(i)
    /\ IF ConfirmError(b, p, order, sig) # ""
       THEN /\ Return(i, ConfirmError(b, p, order, sig))
            /\ UNCHANGED bookings
       ELSE /\ bookings' = [bookings EXCEPT ![b] = ConfirmBooking(@, p)]
            /\ Continue(i, IF MatchIn(bookings[b].slotIds) = {} THEN "confirm_payment"
                           ELSE "confirm_slots",
                        bookings[b].slotIds, NoId, NoId, b, p, MatchIn(bookings[b].slotIds))
            /\ found' = [found EXCEPT ![i] = bookings[b].paymentStatus]
            /\ UNCHANGED <<modified, unreserved, race, rivalResp>>
    /\ UNCHANGED <<slotStatus, payments, env>>

ConfirmStart(i) ==
    \E b \in BookingIdInputs, p \in 1..load.payments :
        \E order \in OrderInputs(b) : \E sig \in Signatures(b, order, p) :
            Confirm(i, b, p, order, sig)

\* One document of update_many({"_id": {"$in": slot_ids}}, {"$set": {"status": "booked"}}).
BookDoc(status, d) == [status EXCEPT ![d] = "booked"]

\* Line 341: the update_many visits the next document.
ConfirmSlotStep(i) ==
    /\ pc[i] = "confirm_slots"
    /\ LET d == SetMin(todo[i])
       IN  /\ slotStatus' = BookDoc(slotStatus, d)
           /\ Continue(i, IF todo[i] = {d} THEN "confirm_payment" ELSE "confirm_slots",
                       slotIds[i], NoId, NoId, bookingId[i], paymentId[i], todo[i] \ {d})
    /\ UNCHANGED <<bookings, payments, env, found, modified, unreserved, race, rivalResp>>

\* The $set of line 344.
ConfirmPayment(doc, p) == [doc EXCEPT !.status = "paid", !.transactionId = p]

\* update_one({"bookingId": b}, ...): the first matching document, 0 if none.
FirstPaymentOf(b) ==
    IF \E k \in 1..Len(payments) : payments[k].bookingId = b
    THEN SetMin({k \in 1..Len(payments) : payments[k].bookingId = b})
    ELSE 0

\* Lines 344-346: db["payment"].update_one and the response.
ConfirmUpdatePayment(i) ==
    /\ pc[i] = "confirm_payment"
    /\ LET k == FirstPaymentOf(bookingId[i])
       IN  payments' = IF k = 0 THEN payments
                       ELSE [payments EXCEPT ![k] = ConfirmPayment(@, paymentId[i])]
    /\ Return(i, Confirmed)
    /\ UNCHANGED <<slotStatus, bookings, env>>

\* ---------------------------------------------------------- specification
Next ==
    \E i \in Callers :
        \/ ReserveStart(i)
        \/ ReserveStep(i)
        \/ CreateStart(i)
        \/ CreateReserveStep(i)
        \/ CreateInsertBooking(i)
        \/ CreateInsertPayment(i)
        \/ ConfirmStart(i)
        \/ ConfirmSlotStep(i)
        \/ ConfirmUpdatePayment(i)

Spec == Init /\ [][Next]_vars

\* A handler that has taken a request runs to its response; nothing obliges a
\* client to send a request.
Proceed(i) ==
    \/ ReserveStep(i)
    \/ CreateReserveStep(i)
    \/ CreateInsertBooking(i)
    \/ CreateInsertPayment(i)
    \/ ConfirmSlotStep(i)
    \/ ConfirmUpdatePayment(i)

FairSpec == Spec /\ \A i \in Callers : WF_vars(Proceed(i))

\* One client at a time: every request is answered before the next is sent.
SoloNext ==
    \/ ReserveStart(SetMin(Callers))
    \/ ReserveStep(SetMin(Callers))
    \/ CreateStart(SetMin(Callers))
    \/ CreateReserveStep(SetMin(Callers))
    \/ CreateInsertBooking(SetMin(Callers))
    \/ CreateInsertPayment(SetMin(Callers))
    \/ ConfirmStart(SetMin(Callers))
    \/ ConfirmSlotStep(SetMin(Callers))
    \/ ConfirmUpdatePayment(SetMin(Callers))

SoloSpec == Init /\ [][SoloNext]_vars

\* The deployments with RAZORPAY_KEY_SECRET set.
InitSigned == Init /\ keySecret
SignedSpec == InitSigned /\ [][Next]_vars

\* ------------------------------------------------------------------ claims
Paid(b) == bookings[b].paymentStatus = "paid"
SlotsOf(b) == Range(bookings[b].slotIds)
BookingIds == 1..Len(bookings)

\* C1: a reserve that answers 409 "slots are not available" has changed no slot:
\* reserve is all-or-nothing.
C1_ReserveAllOrNothing ==
    last.resp = SlotsNotAvailable => last.modified = 0

\* C2: of two reserve calls that run concurrently on the same slots, all of them
\* available at the start, exactly one succeeds and the other gets 409.
C2_ExactlyOneReserveWins ==
    last.rival # NoResp => {last.resp, last.rival} = {Reserved, SlotsNotAvailable}

\* C3: no slot is referenced by two different paid bookings.
C3_NoDoubleSale ==
    \A b1 \in BookingIds, b2 \in BookingIds :
        b1 # b2 /\ Paid(b1) /\ Paid(b2) => SlotsOf(b1) \cap SlotsOf(b2) = {}

\* C4: in every state, a paid booking is confirmed and each of its slots is booked.
C4_PaidImpliesBooked ==
    \A b \in BookingIds :
        Paid(b) => /\ bookings[b].status = "confirmed"
                   /\ \A d \in SlotsOf(b) : slotStatus[d] = "booked"

\* C5: every change of a slot's status is available -> reserved, reserved -> booked
\* or reserved -> available.
LegalTransitions ==
    {<<"available", "reserved">>, <<"reserved", "booked">>, <<"reserved", "available">>}

C5_LegalSlotTransitions ==
    [][\A d \in SlotIds :
          slotStatus'[d] # slotStatus[d] => <<slotStatus[d], slotStatus'[d]>> \in LegalTransitions]_vars

\* C5 witness: a blocked slot was refused by a reserve while another slot went all
\* the way to booked.
C5_Witness ==
    /\ \E d \in SlotIds : slotStatus[d] = "booked"
    /\ \E d \in SlotIds : slotStatus[d] = "blocked"
    /\ last.resp = SlotsNotAvailable

\* C6: a create_booking whose reservation step lost a slot it had validated as
\* available aborts: it never gets to insert its booking.
C6_ConflictAborts ==
    \A i \in Callers : pc[i] = "create_payment" => unreserved[i] = {}

\* C7: create_booking on a list with a missing, booked or blocked slot ends with a
\* client error and changes no slot, booking or payment: a request gets past the
\* validation only if every slot exists and is available or reserved, and a
\* request that does not get past it answers 4xx and leaves the store as it was.
CreateClientErrors == {InvalidId, VenueNotFound, InvalidSlots, NotBookable}

ConfirmRefused(i) ==
    /\ pc'[i] = "idle"
    /\ last'.caller = i
    /\ last'.resp = SignatureMismatchResp
    /\ store' = store

\* C8 as stated, on an existing booking: with a secret configured, a confirm
\* request that carries a signature, the empty string included, other than the
\* HMAC of orderId|paymentId is answered "Signature mismatch" and changes nothing.
C8_AnySignatureChecked ==
    \A i \in Callers :
        (keySecret /\ Accepts(i)) =>
            \A b \in BookingIds, p \in 1..load.payments :
                \A order \in OrderInputs(b) : \A sig \in Signatures(b, order, p) :
                    (sig # NoSignature /\ sig # Hmac(Secret, order, p)) =>
                        ~ENABLED (Confirm(i, b, p, order, sig) /\ ~ConfirmRefused(i))

\* C8, amended: with a secret configured, a confirm request that carries a
\* non-empty signature other than the HMAC of orderId|paymentId is answered
\* "Signature mismatch" and changes no booking, payment or slot.
C8_NonEmptySignatureChecked ==
    \A i \in Callers :
        (keySecret /\ Accepts(i)) =>
            \A b \in BookingIdInputs, p \in 1..load.payments :
                \A order \in OrderInputs(b) : \A sig \in Signatures(b, order, p) :
                    (sig \notin {NoSignature, EmptySignature} /\ sig # Hmac(Secret, order, p)) =>
                        ~ENABLED (Confirm(i, b, p, order, sig) /\ ~ConfirmRefused(i))

\* C8 witness: a request with a wrong signature was refused while a booking it
\* could have confirmed is still pending.
C8_Witness ==
    /\ keySecret
    /\ last.resp = SignatureMismatchResp
    /\ \E b \in BookingIds : bookings[b].paymentStatus = "pending"

\* What confirm_payment(b, p) leaves behind, document by document.
BookingDone(b, p) ==
    /\ bookings[b].paymentStatus = "paid"
    /\ bookings[b].status = "confirmed"
    /\ bookings[b].bookingCode = p
SlotsDone(b) == \A d \in SlotsOf(b) : slotStatus[d] = "booked"
PaymentDone(b, p) ==
    \E k \in 1..Len(payments) :
        /\ payments[k].bookingId = b
        /\ payments[k].status = "paid"
        /\ payments[k].transactionId = p

\* A step writes nothing but what one confirm_payment(b, p) writes: the booking is
\* as it was, a slot that changes is a slot of b and becomes booked, a payment that
\* changes is the payment of b and becomes paid with transaction p.
OnlyRewrites(b, p) ==
    /\ bookings' = bookings
    /\ \A d \in SlotIds :
          slotStatus'[d] # slotStatus[d] => d \in SlotsOf(b) /\ slotStatus'[d] = "booked"
    /\ Len(payments') = Len(payments)
    /\ \A k \in 1..Len(payments) :
          payments'[k] # payments[k] =>
              /\ payments[k].bookingId = b
              /\ payments'[k] = [payments[k] EXCEPT !.status = "paid", !.transactionId = p]

\* C9: confirm_payment is idempotent under duplicate delivery. Once a call for
\* (b, p) has updated the booking, a call with the same arguments, after it or
\* interleaved with it, is taken without error, each of its steps writes only what
\* the first call writes (nothing at all once the first call is through), and it
\* answers "confirmed".
C9_ConfirmIdempotent ==
    \A i \in Callers :
        /\ Accepts(i) =>
              \A b \in BookingIds, p \in 1..load.payments :
                  BookingDone(b, p) =>
                      \A order \in OrderInputs(b) : \A sig \in Signatures(b, order, p) :
                          ~(sig \notin {NoSignature, EmptySignature} /\ keySecret
                                /\ sig # Hmac(Secret, order, p)) =>
                              /\ ENABLED Confirm(i, b, p, order, sig)
                              /\ ~ENABLED (/\ Confirm(i, b, p, order, sig)
                                           /\ pc'[i] = "idle" \/ ~OnlyRewrites(b, p))
        /\ (pc[i] \in {"confirm_slots", "confirm_payment"}
               /\ BookingDone(bookingId[i], paymentId[i])) =>
              ~ENABLED (/\ ConfirmSlotStep(i) \/ ConfirmUpdatePayment(i)
                        /\ ~OnlyRewrites(bookingId[i], paymentId[i]))
        /\ pc[i] = "confirm_payment" =>
              ~ENABLED (ConfirmUpdatePayment(i) /\ last'.resp # Confirmed)

\* C9 witness: a second confirm_payment(b, p) is about to write the payment when
\* an earlier one has already left b paid, its slots booked and its payment paid.
C9_Witness ==
    \E i \in Callers :
        /\ pc[i] = "confirm_payment"
        /\ BookingDone(bookingId[i], paymentId[i])
        /\ SlotsOf(bookingId[i]) # {}
        /\ SlotsDone(bookingId[i])
        /\ PaymentDone(bookingId[i], paymentId[i])

\* C10: a reserved slot does not stay reserved for ever: it is confirmed (booked)
\* or it goes back to available.
C10_ReservationReleased ==
    \A d \in SlotIds :
        [](slotStatus[d] = "reserved" => <>(slotStatus[d] \in {"available", "booked"}))

Pending(b) == bookings[b].paymentStatus = "pending" /\ bookings[b].status = "pending"

\* C11: with one client at a time, create_booking for an existing venue and a
\* non-empty list of distinct available slots is not refused, inserts exactly one
\* booking, pending/pending and referencing exactly those slots, leaves each of the
\* slots reserved and answers 200.
C11_CreateSucceedsAlone ==
    LET i == SetMin(Callers)
    IN  /\ (pc[i] = "idle" /\ Len(bookings) < load.bookings) =>
              \A u \in Users, v \in Venues, ids \in BookLists :
                  (ids # <<>> /\ AllAvailable(ids)) =>
                      /\ ENABLED Create(i, u, v, ids)
                      /\ ~ENABLED (/\ Create(i, u, v, ids)
                                   /\ pc'[i] = "idle" \/ slotIds'[i] # ids \/ store' # store)
        /\ pc[i] = "create_reserve" =>
              ~ENABLED (CreateReserveStep(i) /\ bookings' # bookings)
        /\ pc[i] = "create_booking" =>
              /\ \A d \in Range(slotIds[i]) : slotStatus[d] = "reserved"
              /\ ~ENABLED (/\ CreateInsertBooking(i)
                           /\ \/ Len(bookings') # Len(bookings) + 1
                              \/ bookingId'[i] # Len(bookings')
                              \/ slotStatus' # slotStatus)
        /\ pc[i] = "create_payment" =>
              /\ \A d \in Range(slotIds[i]) : slotStatus[d] = "reserved"
              /\ Pending(bookingId[i])
              /\ bookings[bookingId[i]].slotIds = slotIds[i]
              /\ ~ENABLED (/\ CreateInsertPayment(i)
                           /\ \/ last'.resp # BookingCreated
                              \/ bookings' # bookings
                              \/ slotStatus' # slotStatus)

\* C11 witness: a create_booking on an available slot has just answered 200; its
\* booking is pending and the slot is reserved.
C11_Witness ==
    /\ last.resp = BookingCreated
    /\ Len(bookings) > 0
    /\ Pending(Len(bookings))
    /\ SlotsOf(Len(bookings)) # {}
    /\ \A d \in SlotsOf(Len(bookings)) : slotStatus[d] = "reserved"

\* C12: a confirm_payment(b, p) with a correct signature or none, taken when
\* booking b was pending and had its payment record, answers "confirmed" and, at
\* that moment, b is paid/confirmed with bookingCode p, each of its slots is booked
\* and its payment record is paid with transactionId p.
C12_ConfirmPostcondition ==
    \A i \in Callers :
        (/\ pc[i] = "confirm_payment"
         /\ found[i] = "pending"
         /\ FirstPaymentOf(bookingId[i]) # 0) =>
            ~ENABLED (/\ ConfirmUpdatePayment(i)
                      /\ ~(/\ last'.resp = Confirmed
                            /\ bookings'[bookingId[i]].paymentStatus = "paid"
                            /\ bookings'[bookingId[i]].status = "confirmed"
                            /\ bookings'[bookingId[i]].bookingCode = paymentId[i]
                            /\ \A d \in SlotsOf(bookingId[i]) : slotStatus'[d] = "booked"
                            /\ \E k \in 1..Len(payments') :
                                  /\ payments'[k].bookingId = bookingId[i]
                                  /\ payments'[k].status = "paid"
                                  /\ payments'[k].transactionId = paymentId[i]))

\* C13: whatever the gateway does, create_booking ends with 200 and one more
\* payment record, for its booking, with status created and an order id; when the
\* gateway is not configured or its call fails the order id is order_<bookingId>.
C13_GatewayFailureHidden ==
    \A i \in Callers :
        pc[i] = "create_payment" =>
            \A ok \in BOOLEAN :
                /\ ENABLED CreatePayment(i, ok)
                /\ ~ENABLED (/\ CreatePayment(i, ok)
                             /\ ~(/\ last'.caller = i
                                   /\ last'.resp = BookingCreated
                                   /\ Len(payments') = Len(payments) + 1
                                   /\ payments'[Len(payments')].bookingId = bookingId[i]
                                   /\ payments'[Len(payments')].status = "created"
                                   /\ payments'[Len(payments')].orderId
                                         \in {<<"rzp", bookingId[i]>>, <<"order", bookingId[i]>>}
                                   /\ (~ok \/ ~keyId \/ ~keySecret) =>
                                         payments'[Len(payments')].orderId
                                             = <<"order", bookingId[i]>>))

\* C13 witness: with the gateway configured, a create_booking has answered 200 and
\* its payment record carries the fallback order id: the gateway call had failed.
C13_Witness ==
    /\ keyId /\ keySecret
    /\ last.resp = BookingCreated
    /\ Len(payments) > 0
    /\ payments[Len(payments)].status = "created"
    /\ payments[Len(payments)].orderId = <<"order", payments[Len(payments)].bookingId>>

PaymentsOf(b) == {k \in 1..Len(payments) : payments[k].bookingId = b}
BeingCreated(b) == \E i \in Callers : pc[i] = "create_payment" /\ bookingId[i] = b

\* C14: a booking never has two payment records, it has one as soon as its
\* create_booking is through, every payment record is that of a booking, and its
\* amount is the booking's totalAmount.
C14_OnePaymentPerBooking ==
    /\ \A b \in BookingIds :
          /\ Cardinality(PaymentsOf(b)) <= 1
          /\ ~BeingCreated(b) => Cardinality(PaymentsOf(b)) = 1
          /\ \A k \in PaymentsOf(b) : payments[k].amount = bookings[b].totalAmount
    /\ \A k \in 1..Len(payments) : payments[k].bookingId \in BookingIds

\* C14 witness: two bookings were created and one of them confirmed; no request
\* is in flight.
C14_Witness ==
    /\ Len(bookings) = 2
    /\ Len(payments) = 2
    /\ \E b \in BookingIds : Paid(b)
    /\ \A i \in Callers : pc[i] = "idle"

\* x is a hundredth nearest to y tenths of a hundredth.
Nearest(x, y) == 10 * x - y <= 5 /\ y - 10 * x <= 5

\* C15: for every price P and every number N of slots, N = 0 included, the booking
\* holds total = P * max(1, N) rounded to the hundredth and commission = a tenth
\* of the total rounded to the hundredth.
C15_TotalAndCommission ==
    \A P \in Prices, ids \in HourLists :
        /\ ENABLED Quote(P, ids)
        /\ ~ENABLED (/\ Quote(P, ids)
                     /\ ~(/\ Nearest(bookings'[1].totalAmount,
                                      P * (IF Len(ids) >= 1 THEN Len(ids) ELSE 1))
                           /\ Nearest(bookings'[1].commission, bookings'[1].totalAmount)))

\* C15 witness: a booking without slots at 500 an hour is billed one hour, 500.00,
\* with 50.00 commission.
C15_Witness ==
    /\ Len(bookings) = 1
    /\ bookings[1].slotIds = <<>>
    /\ bookings[1].totalAmount = 50000
    /\ bookings[1].commission = 5000

\* C16: when confirm_payment, taken on a pending booking, is about to set a slot
\* of the booking to booked, that slot is reserved; at the least (a second
\* delivery of the same confirmation may have booked it already) it is not
\* available, blocked, or booked for another booking.
BookedForAnother(d, b) ==
    /\ slotStatus[d] = "booked"
    /\ \E other \in BookingIds \ {b} : Paid(other) /\ d \in SlotsOf(other)

C16_BooksOnlyReserved ==
    \A i \in Callers :
        (pc[i] = "confirm_slots" /\ found[i] = "pending") =>
            /\ slotStatus[SetMin(todo[i])] \in {"reserved", "booked"}
            /\ ~BookedForAnother(SetMin(todo[i]), bookingId[i])

\* C17: a booking document keeps its userId, venueId, slotIds, totalAmount and
\* commission, and a payment document its bookingId, amount and orderId, through
\* every step; no document is removed.
C17_CreationFieldsFrozen ==
    [][/\ Len(bookings') >= Len(bookings)
       /\ Len(payments') >= Len(payments)
       /\ \A b \in BookingIds :
             /\ bookings'[b].userId = bookings[b].userId
             /\ bookings'[b].venueId = bookings[b].venueId
             /\ bookings'[b].slotIds = bookings[b].slotIds
             /\ bookings'[b].totalAmount = bookings[b].totalAmount
             /\ bookings'[b].commission = bookings[b].commission
       /\ \A k \in 1..Len(payments) :
             /\ payments'[k].bookingId = payments[k].bookingId
             /\ payments'[k].amount = payments[k].amount
             /\ payments'[k].orderId = payments[k].orderId]_vars

\* C17 witness: a confirm_payment has gone through all its writes on a booking
\* with a slot.
C17_Witness ==
    \E b \in BookingIds, p \in PaymentIds :
        /\ BookingDone(b, p)
        /\ SlotsOf(b) # {}
        /\ PaymentDone(b, p)
        /\ last.resp = Confirmed

\* C18: with no confirm_payment in progress, a booking's bookingCode and its
\* payment record's transactionId are equal when both are set.
ConfirmInProgress == \E i \in Callers : pc[i] \in {"confirm_slots", "confirm_payment"}

C18_CodeIsTransactionId ==
    ~ConfirmInProgress =>
        \A b \in BookingIds : \A k \in PaymentsOf(b) :
            (bookings[b].bookingCode # NoId /\ payments[k].transactionId # NoId) =>
                bookings[b].bookingCode = payments[k].transactionId

\* C19: a confirm_payment whose signature verifies marks a pending booking paid
\* only if the order id it carries is the orderId of the booking's payment record.
C19_OrderMatchesPayment ==
    \A i \in Callers :
        (keySecret /\ Accepts(i)) =>
            \A b \in BookingIds, p \in 1..load.payments : \A order \in OrderInputs(b) :
                (/\ bookings[b].paymentStatus = "pending"
                 /\ PaymentsOf(b) # {}
                 /\ \A k \in PaymentsOf(b) : payments[k].orderId # order) =>
                    ~ENABLED (/\ Confirm(i, b, p, order, Hmac(Secret, order, p))
                              /\ bookings'[b].paymentStatus = "paid")

\* C20: a booking that is paid and confirmed stays paid and confirmed, and a
\* booked slot stays booked, through every step.
C20_ConfirmationPermanent ==
    [][/\ \A b \in BookingIds :
             (bookings[b].paymentStatus = "paid" /\ bookings[b].status = "confirmed") =>
                 (bookings'[b].paymentStatus = "paid" /\ bookings'[b].status = "confirmed")
       /\ \A d \in SlotIds : slotStatus[d] = "booked" => slotStatus'[d] = "booked"]_vars

\* C20 witness: after a confirmation, a reserve that names the booked slot has
\* been refused.
C20_Witness ==
    /\ \E b \in BookingIds : Paid(b) /\ SlotsOf(b) # {} /\ SlotsDone(b)
    /\ last.resp = SlotsNotAvailable
    /\ last.modified = 0
====
